---- MODULE Spec2Model ----
(***************************************************************************)
(* A model of stocks.py: the retrieval cache (create_df), the indicator    *)
(* engine (add_indicator), the driver loop (main) and the Ichimoku cloud   *)
(* segments drawn by plot.                                                 *)
(*                                                                         *)
(* Numbers.  A numeric cell of a DataFrame is a rational <<num, den>> or   *)
(* NaN (the empty tuple).  Prices are counted in units of 10^-11, so that  *)
(* the eleventh decimal place, the first one that to_json's default        *)
(* double_precision=10 drops, is the last digit of the numerator.          *)
(*                                                                         *)
(* DataFrames.  [index |-> sequence of timestamps,                         *)
(*               cols  |-> function from column name to sequence of cells] *)
(* A timestamp is [day, ns]: a calendar day and the nanoseconds past its   *)
(* midnight.                                                               *)
(***************************************************************************)
EXTENDS Integers, Sequences, FiniteSets, TLC

\* ------------------------------------------------------------- bounds
\* Trading days the provider has data for: 1..MaxDay.
MaxDay == 2
\* Clock advances in one behaviour.
MaxAdvances == 2
\* Direct create_df calls (the way the tests call it) in one behaviour.
MaxCalls == 3
\* Lines of the symbol file read by main.
MaxStocks == 2
\* Rows of the short sample frames: 0..MaxShort.
MaxShort == 3
\* Sample frames also have w .. w+MaxOver rows for every window w.
MaxOver == 1
\* Names in one indicators argument.
MaxIndicators == 2
\* Rows of the frames passed to plot with Ichimoku spans: 0..MaxPlotRows.
MaxPlotRows == 4

\* ---------------------------------------------------------- numbers
NaN == <<>>

Num(n) == <<n, 1>>

IsNum(c) == c # NaN

\* Equality of two defined cells as rationals.
RatEq(a, b) == a[1] * b[2] = b[1] * a[2]

RatAdd(a, b) == <<a[1] * b[2] + b[1] * a[2], a[2] * b[2]>>

RatSub(a, b) == <<a[1] * b[2] - b[1] * a[2], a[2] * b[2]>>

\* a > b on two cells, as float comparison has it: False when either is NaN.
\* Denominators are positive.
Greater(a, b) == IsNum(a) /\ IsNum(b) /\ a[1] * b[2] > b[1] * a[2]

\* The running sums of the defined cells of x[lo..hi]: element j is the sum
\* over x[lo..lo+j-1] (NaN observations add nothing).
RECURSIVE RunningSums(_, _, _)
RunningSums(x, lo, hi) ==
    IF lo > hi THEN <<>>
    ELSE IF lo = hi THEN <<IF IsNum(x[lo]) THEN x[lo] ELSE Num(0)>>
    ELSE LET mid == (lo + hi) \div 2
             left == RunningSums(x, lo, mid)
             right == RunningSums(x, mid + 1, hi)
         IN  left \o [j \in 1..Len(right) |-> RatAdd(left[Len(left)], right[j])]

\* The running counts of the defined cells of x[lo..hi].
RECURSIVE RunningCounts(_, _, _)
RunningCounts(x, lo, hi) ==
    IF lo > hi THEN <<>>
    ELSE IF lo = hi THEN <<IF IsNum(x[lo]) THEN 1 ELSE 0>>
    ELSE LET mid == (lo + hi) \div 2
             left == RunningCounts(x, lo, mid)
             right == RunningCounts(x, mid + 1, hi)
         IN  left \o [j \in 1..Len(right) |-> left[Len(left)] + right[j]]

\* ------------------------------------------------------- DataFrames
OHLCV == {"Open", "High", "Low", "Close", "Volume"}

Timestamp(d) == [day |-> d, ns |-> 0]

NRows(df) == Len(df.index)

Columns(df) == DOMAIN df.cols

\* df[name] = series: adds the column or replaces it, in the same object.
SetColumn(df, name, series) ==
    [df EXCEPT !.cols = [c \in DOMAIN df.cols \cup {name} |->
                            IF c = name THEN series ELSE df.cols[c]]]

\* -------------------------------------------------- indicator engine
\* Series.rolling(window, min_periods).mean(), as pandas' roll_mean keeps it:
\* a running sum and a running count of the defined observations, the row
\* leaving the window taken off as the new one is added. Row i covers rows
\* max(1, i-window+1)..i; it is NaN when fewer than min_periods observations
\* are defined there, or none is.
RollingMean(x, window, min_periods) ==
    LET sums == RunningSums(x, 1, Len(x))
        counts == RunningCounts(x, 1, Len(x))
    IN  [i \in 1..Len(x) |->
            LET s == IF i > window THEN RatSub(sums[i], sums[i - window])
                     ELSE sums[i]
                nobs == IF i > window THEN counts[i] - counts[i - window]
                        ELSE counts[i]
            IN  IF nobs >= min_periods /\ nobs > 0
                THEN <<s[1], s[2] * nobs>>
                ELSE NaN]

\* A column computed by the ta library (MACD, RSI, Bollinger, Ichimoku) or
\* by Series.shift: its cells are not computed here, only its presence and
\* its length.
TaColumn(df, what) == [i \in 1..NRows(df) |-> <<what>>]

\* The column assignments one recognized name makes, in order.
IndicatorColumns(indicator) ==
    CASE indicator = "MA50" -> <<"MA50">>
      [] indicator = "MA200" -> <<"MA200">>
      [] indicator = "MA20" -> <<"MA20">>
      [] indicator = "MACD" -> <<"MACD">>
      [] indicator = "RSI" -> <<"RSI">>
      [] indicator = "BollingerBands" -> <<"BB_upper", "BB_lower", "BB_middle">>
      [] indicator = "Ichimoku" ->
            <<"Tenkan_sen", "Kijun_sen", "Senkou_span_a", "Senkou_span_b",
              "Chikou_span">>
      [] OTHER -> <<>>

\* Mutant: the moving averages without min_periods=0 (pandas then requires a
\* full window).
IndicatorSeriesFullWindow(df, column) ==
    CASE column = "MA50" -> RollingMean(df.cols["Close"], 50, 50)
      [] column = "MA200" -> RollingMean(df.cols["Close"], 200, 200)
      [] column = "MA20" -> RollingMean(df.cols["Close"], 20, 20)
      [] OTHER -> TaColumn(df, column)

\* The series assigned to one indicator column.
IndicatorSeries(df, column) ==
    CASE column = "MA50" -> RollingMean(df.cols["Close"], 50, 0)
      [] column = "MA200" -> RollingMean(df.cols["Close"], 200, 0)
      [] column = "MA20" -> RollingMean(df.cols["Close"], 20, 0)
      [] OTHER -> TaColumn(df, column)

RECURSIVE AssignColumns(_, _)
AssignColumns(df, columns) ==
    IF columns = <<>> THEN df
    ELSE AssignColumns(SetColumn(df, Head(columns),
                                 IndicatorSeries(df, Head(columns))),
                       Tail(columns))

\* Mutant: a name that matches no branch gets a column of its own.
ApplyIndicatorUnknownColumn(df, indicator) ==
    IF IndicatorColumns(indicator) = <<>>
    THEN SetColumn(df, indicator, TaColumn(df, indicator))
    ELSE AssignColumns(df, IndicatorColumns(indicator))

\* One turn of the loop over indicators_list: the if/elif chain. A name that
\* matches no branch falls through: nothing is assigned, nothing is raised.
ApplyIndicator(df, indicator) == AssignColumns(df, IndicatorColumns(indicator))

\* add_indicator's loop, on the frame the caller passed.
RECURSIVE AddIndicator(_, _)
AddIndicator(df, indicators_list) ==
    IF indicators_list = <<>> THEN df
    ELSE AddIndicator(ApplyIndicator(df, Head(indicators_list)),
                      Tail(indicators_list))

\* The source columns a name's branch reads (df['Close'], df['High'],
\* df['Low']); a name that matches no branch reads none.
RequiredColumns(indicator) ==
    CASE indicator = "Ichimoku" -> {"High", "Low", "Close"}
      [] IndicatorColumns(indicator) # <<>> -> {"Close"}
      [] OTHER -> {}

\* The effect of add_indicator(df, indicators) on the heap of frame objects:
\* the columns are assigned on the object the caller passed (df[...] = ...),
\* and `return df` returns that same object. The only way out by exception
\* is the KeyError of reading a source column the frame does not have.
AddIndicatorEffect(h, obj, indicators_list) ==
    LET needed == UNION {RequiredColumns(indicators_list[i]) :
                            i \in 1..Len(indicators_list)}
    IN  IF needed \subseteq Columns(h[obj])
        THEN [heap |-> [h EXCEPT ![obj] = AddIndicator(h[obj], indicators_list)],
              ret |-> <<obj>>, raised |-> FALSE]
        ELSE [heap |-> h, ret |-> <<>>, raised |-> TRUE]

\* ------------------------------------------------------ the provider
\* str.upper() on the symbol strings of this model.
Upper(s) ==
    CASE s = "aapl" -> "AAPL"
      [] s = "msft" -> "MSFT"
      [] OTHER -> s

\* str.rstrip() on the lines of this model.
RStrip(line) ==
    CASE line = "msft\n" -> "msft"
      [] OTHER -> line

\* The market data behind yf.download, in units of 10^-11: some closes end
\* in a zero eleventh decimal (day 1), others do not.
BasePrice(symbol) == IF Upper(symbol) = "AAPL" THEN 1500 ELSE 3100

MarketCell(symbol, column, d) ==
    CASE column = "Open" -> Num(BasePrice(symbol) + 23 * (d - 1) - 4)
      [] column = "High" -> Num(BasePrice(symbol) + 23 * (d - 1) + 20)
      [] column = "Low" -> Num(BasePrice(symbol) + 23 * (d - 1) - 20)
      [] column = "Close" -> Num(BasePrice(symbol) + 23 * (d - 1))
      [] OTHER -> Num(1000 + 100 * d)

\* yf.download(symbol, start=start_date, end=end) when it returns: the daily
\* rows from start_date on ("data"), or a frame with the OHLCV columns and no
\* rows ("empty": nothing found for the symbol or the range).
Download(symbol, start_date, resp) ==
    LET n == IF resp = "data" /\ start_date <= MaxDay
             THEN MaxDay - start_date + 1 ELSE 0
    IN  [index |-> [i \in 1..n |-> Timestamp(start_date + i - 1)],
         cols |-> [c \in OHLCV |->
                     [i \in 1..n |-> MarketCell(symbol, c, start_date + i - 1)]]]

\* ------------------------------------------------- the cache file
\* DataFrame.to_json writes floats with double_precision=10 (its default):
\* the value rounded to 10 decimal places, i.e. to a multiple of 10 units.
RoundDouble(c) ==
    IF c = NaN THEN NaN
    ELSE Num(((c[1] + 5 * c[2]) \div (10 * c[2])) * 10)

\* Volume is an integer column and is written digit for digit.
EncodeCell(column, c) == IF column = "Volume" THEN c ELSE RoundDouble(c)

\* date_format='iso': the index label to millisecond resolution.
IsoFormat(ts) == [day |-> ts.day, ms |-> ts.ns \div 1000000]

\* pd.to_datetime on an ISO label.
ParseIso(k) == [day |-> k.day, ns |-> k.ms * 1000000]

\* df.to_json(cache_file, date_format='iso'), orient 'columns':
\* {column: {index label: value}}.
ToJson(df) ==
    LET keys == {IsoFormat(df.index[i]) : i \in 1..NRows(df)}
    IN  [c \in Columns(df) |->
            [k \in keys |->
                LET i == CHOOSE j \in 1..NRows(df) : IsoFormat(df.index[j]) = k
                IN  EncodeCell(c, df.cols[c][i])]]

KeyLess(a, b) == a.day < b.day \/ (a.day = b.day /\ a.ms < b.ms)

RECURSIVE SortKeys(_)
SortKeys(S) ==
    IF S = {} THEN <<>>
    ELSE LET m == CHOOSE a \in S : \A b \in S \ {a} : KeyLess(a, b)
         IN  <<m>> \o SortKeys(S \ {m})

\* json.load, pd.DataFrame(cached_data) and df.index = pd.to_datetime(df.index).
FromJson(data) ==
    LET labels == SortKeys(UNION {DOMAIN data[c] : c \in DOMAIN data})
        n == Len(labels)
    IN  [index |-> [i \in 1..n |-> ParseIso(labels[i])],
         cols |-> [c \in DOMAIN data |->
                     [i \in 1..n |->
                        IF labels[i] \in DOMAIN data[c]
                        THEN data[c][labels[i]] ELSE NaN]]]

\* ------------------------------------------------------- create_df
refresh_interval == 10800

\* Mutant: the start date made part of the cache key.
CacheFileByStart(symbol, start_date) ==
    "cache/" \o symbol \o "_" \o ToString(start_date) \o ".json"

\* cache_file = os.path.join(cache_dir, f'{symbol}.json'), with the default
\* cache_dir; start_date is in scope and is not part of the name.
CacheFile(symbol, start_date) == "cache/" \o symbol \o ".json"

\* time.time() - last_modified_time < refresh_interval
IsRecent(t, last_modified_time) == t - last_modified_time < refresh_interval

\* Mutant: serving an entry from the cache stamps it as just saved.
MtimeTouchedByRead(mtime, t) == t

\* The modification time after a read of the file at time t (open(..., 'r')
\* and json.load leave it alone).
MtimeAfterRead(mtime, t) == mtime

WriteFile(fs, name, entry) ==
    [f \in DOMAIN fs \cup {name} |-> IF f = name THEN entry ELSE fs[f]]

\* create_df(symbol, start_date) at time t on the cache directory fs, with
\* resp what the provider does if it is asked ("data", "empty", "raise").
\* The result: what happened to the call (outcome "returned" with the frame
\* in df, or "raised"), the directory afterwards, the provider calls made.
CreateDf(fs, t, symbol, start_date, resp) ==
    LET cache_file == CacheFile(symbol, start_date)
    IN  IF cache_file \in DOMAIN fs /\ IsRecent(t, fs[cache_file].mtime)
        THEN IF fs[cache_file].kind = "json"
             THEN [outcome |-> "returned",
                   df |-> <<FromJson(fs[cache_file].data)>>,
                   fs |-> [fs EXCEPT ![cache_file].mtime =
                               MtimeAfterRead(fs[cache_file].mtime, t)],
                   fetches |-> 0]
             \* json.load raises JSONDecodeError: nothing catches it
             ELSE [outcome |-> "raised", df |-> <<>>, fs |-> fs, fetches |-> 0]
        ELSE IF resp = "raise"
             \* yf.download raises: nothing catches it, nothing is written
             THEN [outcome |-> "raised", df |-> <<>>, fs |-> fs, fetches |-> 1]
             ELSE LET df == Download(symbol, start_date, resp)
                  IN  [outcome |-> "returned",
                       df |-> <<df>>,
                       fs |-> WriteFile(fs, cache_file,
                                 [kind |-> "json", data |-> ToJson(df),
                                  mtime |-> t]),
                       fetches |-> 1]

\* ------------------------------------------------------------ main
\* Mutant: get_stocks without .upper().
GetStocksAsWritten(lines) == [j \in 1..Len(lines) |-> RStrip(lines[j])]

\* get_stocks: one symbol per line, stripped and uppercased.
GetStocks(lines) == [k \in 1..Len(lines) |-> Upper(RStrip(lines[k]))]

\* '-i' default, split(',').
DefaultIndicators == <<"MA50", "MA200">>

\* plot(symbol, df1, indicators): the figure, by its title symbol and the
\* frame it draws.
Plot(symbol, df1) == [symbol |-> symbol, columns |-> Columns(df1), rows |-> NRows(df1)]

\* go.Scatter(x=..., y=..., name=..., fill=..., fillcolor=...): one trace.
\* A trace given no name has name "", one given no fill colour has "".
Scatter(x, y, name, fill, fillcolor) ==
    [type |-> "scatter", x |-> x, y |-> y, name |-> name, fill |-> fill,
     fillcolor |-> fillcolor]

\* Mutant: the cloud conditions with `or` between the two rows.
CloudSegmentEitherRow(df1, i) ==
    LET a == df1.cols["Senkou_span_a"]
        b == df1.cols["Senkou_span_b"]
        x == <<df1.index[i - 1], df1.index[i]>>
        edge == Scatter(x, <<a[i - 1], a[i]>>, "", "none", "")
    IN  IF Greater(a[i], b[i]) \/ Greater(a[i - 1], b[i - 1])
        THEN <<edge, Scatter(x, <<b[i - 1], b[i]>>, "Cloud Green", "tonexty",
                             "rgba(0, 200, 0, 0.2)")>>
        ELSE IF Greater(b[i], a[i]) \/ Greater(b[i - 1], a[i - 1])
        THEN <<edge, Scatter(x, <<b[i - 1], b[i]>>, "Cloud Red", "tonexty",
                             "rgba(255, 0, 0, 0.2)")>>
        ELSE <<>>

\* One turn of the cloud loop, for rows i-1 and i (rows count from 1 here,
\* so i is range(1, len(df1))'s i plus one): the traces it adds. The span A
\* edge of the segment, then the span B edge filled towards it in green or
\* in red; nothing when neither condition holds.
CloudSegment(df1, i) ==
    LET a == df1.cols["Senkou_span_a"]
        b == df1.cols["Senkou_span_b"]
        x == <<df1.index[i - 1], df1.index[i]>>
        edge == Scatter(x, <<a[i - 1], a[i]>>, "", "none", "")
    IN  IF Greater(a[i], b[i]) /\ Greater(a[i - 1], b[i - 1])
        THEN <<edge, Scatter(x, <<b[i - 1], b[i]>>, "Cloud Green", "tonexty",
                             "rgba(0, 200, 0, 0.2)")>>
        ELSE IF Greater(b[i], a[i]) /\ Greater(b[i - 1], a[i - 1])
        THEN <<edge, Scatter(x, <<b[i - 1], b[i]>>, "Cloud Red", "tonexty",
                             "rgba(255, 0, 0, 0.2)")>>
        ELSE <<>>

\* for i in range(1, len(df1)): the traces of the rows from i on.
RECURSIVE Clouds(_, _)
Clouds(df1, i) ==
    IF i > NRows(df1) THEN <<>>
    ELSE CloudSegment(df1, i) \o Clouds(df1, i + 1)

\* A whole column drawn as one line.
Line(df1, column, name, fill, fillcolor) ==
    Scatter(df1.index, df1.cols[column], name, fill, fillcolor)

\* One turn of plot's loop over indicators_list: the traces its branch adds;
\* a name that matches no branch adds none.
IndicatorTraces(df1, indicator) ==
    CASE indicator = "MA50" -> <<Line(df1, "MA50", "MA50", "none", "")>>
      [] indicator = "MA200" -> <<Line(df1, "MA200", "MA200", "none", "")>>
      [] indicator = "MA20" -> <<Line(df1, "MA20", "MA20", "none", "")>>
      [] indicator = "MACD" -> <<Line(df1, "MACD", "MACD", "none", "")>>
      [] indicator = "RSI" -> <<Line(df1, "RSI", "RSI", "none", "")>>
      [] indicator = "BollingerBands" ->
            <<Line(df1, "BB_upper", "Bollinger Bands Upper", "none", ""),
              Line(df1, "BB_lower", "Bollinger Bands Lower", "tonexty",
                   "rgba(179, 223, 255, 0.3)"),
              Line(df1, "BB_middle", "Bollinger Bands Middle", "none", "")>>
      [] indicator = "Ichimoku" ->
            <<Line(df1, "Tenkan_sen", "Tenkan-sen", "none", ""),
              Line(df1, "Kijun_sen", "Kijun-sen", "none", ""),
              Line(df1, "Senkou_span_a", "Senkou Span A", "none", ""),
              Line(df1, "Senkou_span_b", "Senkou Span B", "none", "")>>
            \o Clouds(df1, 2)
            \o <<Line(df1, "Chikou_span", "Chikou Span", "none", "")>>
      [] OTHER -> <<>>

RECURSIVE PlotIndicators(_, _)
PlotIndicators(df1, indicators_list) ==
    IF indicators_list = <<>> THEN <<>>
    ELSE IndicatorTraces(df1, Head(indicators_list))
         \o PlotIndicators(df1, Tail(indicators_list))

\* The traces of the figure plot returns: the candlesticks, the traces of
\* the indicators in the order asked, the volume bars.
PlotTraces(df1, indicators_list) ==
    <<[type |-> "candlestick", x |-> df1.index, name |-> "OHLC"]>>
    \o PlotIndicators(df1, indicators_list)
    \o <<[type |-> "bar", x |-> df1.index, name |-> ""]>>

\* ------------------------------------------------------------ state
VARIABLES
    now,        \* time.time(), in seconds
    advances,   \* clock advances so far
    calls,      \* direct create_df calls so far
    files,      \* the cache directory: file name -> [kind, data, mtime]
    fetched,    \* history: symbol -> the last provider result saved for it
    lastCall,   \* history: <<>> or <<the last create_df call that ended>>
    mainPc,     \* main: "idle", "loop", "done" or "aborted" (uncaught exception)
    csv,        \* the lines of the symbol file main read
    stocks,     \* main's list of symbols
    start_date, \* main's args.start_date
    k,          \* main's position in stocks, from 1
    all_figs,   \* main's list of figures
    heap,       \* frame objects held by a caller of add_indicator
    lastApply,  \* history: <<>> or <<the last add_indicator call>>
    plotDf,     \* <<>> or <<the frame a caller of plot holds>>
    fig         \* <<>> or <<the traces of the figure plot returned for it>>

cacheVars == <<now, advances, calls, files, fetched, lastCall>>

mainVars == <<mainPc, csv, stocks, start_date, k, all_figs>>

indVars == <<heap, lastApply>>

plotVars == <<plotDf, fig>>

vars == <<now, advances, calls, files, fetched, lastCall, mainPc, csv, stocks,
          start_date, k, all_figs, heap, lastApply, plotDf, fig>>

\* ----------------------------------------------------------- inputs
Delays == {1, refresh_interval - 1, refresh_interval}

StartDates == 1..MaxDay

Responses == {"data", "empty", "raise"}

\* Symbols passed to create_df directly: the tests' and its other spelling.
ApiSymbols == {"AAPL", "aapl"}

\* parse_arguments' default start date: the earliest day.
DefaultStart == Timestamp(1).day

\* Lines of a symbol file.
Lines == {"AAPL", "aapl", "msft\n"}

RECURSIVE SeqsUpTo(_, _)
SeqsUpTo(S, n) ==
    IF n = 0 THEN {<<>>}
    ELSE LET shorter == SeqsUpTo(S, n - 1)
         IN  shorter \cup {Append(q, x) : q \in shorter, x \in S}

Distinct(q) == \A i, j \in 1..Len(q) : i # j => q[i] # q[j]

CsvFiles == SeqsUpTo(Lines, MaxStocks)

\* The names add_indicator is asked for: its vocabulary and a stranger.
IndicatorNames ==
    {"MA20", "MA50", "MA200", "MACD", "RSI", "BollingerBands", "Ichimoku", "FOO"}

\* indicators.split(','): the argument, as the list of its names.
IndicatorLists == {q \in SeqsUpTo(IndicatorNames, MaxIndicators) : Distinct(q)}

Windows == {20, 50, 200}

RowCounts == (0..MaxShort) \cup {w + j : w \in Windows, j \in 0..MaxOver}

\* Where a sample frame has no close: nowhere, in its first row, everywhere.
Gaps == {"none", "first", "all"}

\* An OHLCV frame as the tests' sample_df builds it, n rows long.
SampleFrame(n, gap) ==
    [index |-> [i \in 1..n |-> Timestamp(i)],
     cols |-> [c \in OHLCV |->
                [i \in 1..n |->
                    CASE c = "Open" -> Num(99 + i)
                      [] c = "High" -> Num(101 + i)
                      [] c = "Low" -> Num(97 + i)
                      [] c = "Volume" -> Num(900 + 100 * i)
                      [] OTHER ->
                            IF gap = "all" \/ (gap = "first" /\ i = 1)
                            THEN NaN
                            ELSE Num(100 + i + ((i * i) % 5))]]]

\* What the two leading spans <<A, B>> hold in one row: a value is undefined
\* (the span's warm-up) or a midpoint of highs and lows, whole or half. One
\* pair for each way the two stand to each other: A above B, A below B,
\* equal, A undefined, B undefined, both undefined.
SpanRows ==
    {<<(<<3, 2>>), Num(1)>>, <<Num(1), (<<3, 2>>)>>, <<Num(1), (<<2, 2>>)>>,
     <<NaN, Num(1)>>, <<Num(1), NaN>>, <<NaN, NaN>>}

\* The span columns of a frame of n rows, row by row.
SpanSeries(n) == [1..n -> SpanRows]

\* The indicators arguments plot is called with on a frame that went through
\* add_indicator with "MA20,Ichimoku".
PlotLists == {<<"Ichimoku">>, <<"MA20", "Ichimoku">>}

\* A frame as add_indicator leaves it for "MA20,Ichimoku", its two leading
\* spans holding what the ta library computed for them.
IchimokuFrame(n, spans) ==
    SetColumn(SetColumn(AddIndicator(SampleFrame(n, "none"),
                                     <<"MA20", "Ichimoku">>),
                        "Senkou_span_a", [i \in 1..n |-> spans[i][1]]),
              "Senkou_span_b", [i \in 1..n |-> spans[i][2]])

\* ------------------------------------------------------------- Init
Init ==
    /\ now = 0
    /\ advances = 0
    /\ calls = 0
    /\ files = <<>>
    /\ fetched = <<>>
    /\ lastCall = <<>>
    /\ mainPc = "idle"
    /\ csv = <<>>
    /\ stocks = <<>>
    /\ start_date = 1
    /\ k = 1
    /\ all_figs = <<>>
    /\ heap = <<>>
    /\ lastApply = <<>>
    /\ plotDf = <<>>
    /\ fig = <<>>

\* ---------------------------------------------------------- actions
\* What is remembered of a create_df call that ended.
CallRecord(caller, line, symbol, start, resp, r) ==
    LET f == CacheFile(symbol, start)
    IN  [caller |-> caller, line |-> line, symbol |-> symbol, start |-> start,
         at |-> now, file |-> f,
         pre |-> IF f \in DOMAIN files THEN <<files[f]>> ELSE <<>>,
         saved |-> IF symbol \in DOMAIN fetched THEN <<fetched[symbol]>> ELSE <<>>,
         resp |-> IF r.fetches = 1 THEN resp ELSE "none",
         fetches |-> r.fetches, outcome |-> r.outcome, df |-> r.df,
         post |-> IF f \in DOMAIN r.fs THEN <<r.fs[f]>> ELSE <<>>]

\* The history of saved provider results after a create_df call: what the
\* provider returned, when, for which start date, and the calls served from
\* the cache since.
FetchedAfter(symbol, start, r) ==
    IF r.fetches = 1 /\ r.outcome = "returned"
    THEN WriteFile(fetched, symbol,
                   [df |-> r.df[1], at |-> now, start |-> start, hits |-> 0])
    ELSE IF r.fetches = 0 /\ r.outcome = "returned" /\ symbol \in DOMAIN fetched
    THEN [fetched EXCEPT ![symbol].hits = @ + 1]
    ELSE fetched

\* Time passes.
Advance(d) ==
    /\ advances < MaxAdvances
    /\ now' = now + d
    /\ advances' = advances + 1
    /\ UNCHANGED <<calls, files, fetched, lastCall, mainVars, indVars, plotVars>>

\* create_df(symbol, start) called directly, as the tests do.
ApiCreateDf(symbol, start, resp) ==
    /\ mainPc = "idle"
    /\ calls < MaxCalls
    /\ LET r == CreateDf(files, now, symbol, start, resp)
       IN  /\ files' = r.fs
           /\ fetched' = FetchedAfter(symbol, start, r)
           /\ lastCall' = <<CallRecord("api", symbol, symbol, start, resp, r)>>
    /\ calls' = calls + 1
    /\ UNCHANGED <<now, advances, mainVars, indVars, plotVars>>

\* The process is killed inside df.to_json: the file was opened for writing
\* and holds a truncated document; create_df never returns.
KilledDuringSave(symbol, start) ==
    /\ mainPc = "idle"
    /\ calls < MaxCalls
    /\ LET f == CacheFile(symbol, start)
       IN  /\ ~(f \in DOMAIN files /\ IsRecent(now, files[f].mtime))
           /\ files' = WriteFile(files, f,
                          [kind |-> "corrupt", data |-> <<>>, mtime |-> now])
    /\ lastCall' = <<>>
    /\ calls' = calls + 1
    /\ UNCHANGED <<now, advances, fetched, mainVars, indVars, plotVars>>

\* main, up to the loop: parse_arguments and get_stocks.
MainStart(lines, start) ==
    /\ mainPc = "idle"
    /\ mainPc' = "loop"
    /\ csv' = lines
    /\ stocks' = GetStocks(lines)
    /\ start_date' = start
    /\ k' = 1
    /\ all_figs' = <<>>
    /\ UNCHANGED <<cacheVars, indVars, plotVars>>

\* One turn of main's loop: create_df, add_indicator, plot, append. An
\* exception of create_df leaves main: there is no try around the body.
MainIteration(resp) ==
    /\ mainPc = "loop"
    /\ k <= Len(stocks)
    /\ LET r == CreateDf(files, now, stocks[k], start_date, resp)
       IN  /\ files' = r.fs
           /\ fetched' = FetchedAfter(stocks[k], start_date, r)
           /\ lastCall' =
                <<CallRecord("main", csv[k], stocks[k], start_date, resp, r)>>
           /\ IF r.outcome = "raised"
              THEN /\ mainPc' = "aborted"
                   /\ UNCHANGED <<k, all_figs>>
              ELSE /\ all_figs' = Append(all_figs,
                          Plot(stocks[k], AddIndicator(r.df[1], DefaultIndicators)))
                   /\ k' = k + 1
                   /\ UNCHANGED mainPc
    /\ UNCHANGED <<now, advances, calls, csv, stocks, start_date, indVars, plotVars>>

\* After the loop: generate_html(all_figs).
MainGenerateHtml ==
    /\ mainPc = "loop"
    /\ k > Len(stocks)
    /\ mainPc' = "done"
    /\ UNCHANGED <<cacheVars, csv, stocks, start_date, k, all_figs, indVars, plotVars>>

\* A caller builds an OHLCV frame (the tests' sample_df fixture).
NewFrame(n, gap) ==
    /\ heap = <<>>
    /\ heap' = (1 :> SampleFrame(n, gap))
    /\ lastApply' = <<>>
    /\ UNCHANGED <<cacheVars, mainVars, plotVars>>

\* add_indicator(df, indicators) on a frame not yet passed to it.
AddIndicatorCall(obj, indicators_list) ==
    /\ obj \in DOMAIN heap
    /\ lastApply = <<>>
    /\ LET r == AddIndicatorEffect(heap, obj, indicators_list)
       IN  /\ heap' = r.heap
           /\ lastApply' = <<[arg |-> obj, ret |-> r.ret, raised |-> r.raised,
                              indicators |-> indicators_list,
                              before |-> heap[obj]]>>
    /\ UNCHANGED <<cacheVars, mainVars, plotVars>>

\* A caller holds a frame with the Ichimoku columns.
NewIchimokuFrame(n, spans) ==
    /\ plotDf = <<>>
    /\ plotDf' = <<IchimokuFrame(n, spans)>>
    /\ fig' = <<>>
    /\ UNCHANGED <<cacheVars, mainVars, indVars>>

\* plot(symbol, df1, indicators) on the frame held.
PlotCall(indicators_list) ==
    /\ plotDf # <<>>
    /\ fig = <<>>
    /\ fig' = <<PlotTraces(plotDf[1], indicators_list)>>
    /\ UNCHANGED <<cacheVars, mainVars, indVars, plotDf>>

\* ---------------------------------------------------- specifications
Next ==
    \/ \E d \in Delays : Advance(d)
    \/ \E d \in StartDates, resp \in Responses : ApiCreateDf("AAPL", d, resp)

\* The cache under sequences of create_df calls.
Spec == Init /\ [][Next]_vars

CrashNext ==
    \/ \E d \in Delays : Advance(d)
    \/ \E d \in StartDates, resp \in Responses : ApiCreateDf("AAPL", d, resp)
    \/ \E d \in StartDates : KilledDuringSave("AAPL", d)

\* The cache when a process can also die while it saves.
CrashSpec == Init /\ [][CrashNext]_vars

MainNext ==
    \/ \E d \in Delays : Advance(d)
    \/ \E s \in {"AAPL", "MSFT"}, d \in StartDates : KilledDuringSave(s, d)
    \/ \E lines \in CsvFiles, d \in StartDates : MainStart(lines, d)
    \/ \E resp \in Responses : MainIteration(resp)
    \/ MainGenerateHtml

\* The driver: one run of main over a cache directory left by earlier runs.
MainSpec == Init /\ [][MainNext]_vars

CaseNext ==
    \/ Advance(refresh_interval)
    \/ \E s \in ApiSymbols : ApiCreateDf(s, DefaultStart, "data")
    \/ \E lines \in CsvFiles : MainStart(lines, DefaultStart)
    \/ MainIteration("data")
    \/ MainGenerateHtml

\* Direct create_df calls, then one run of main over the cache directory
\* they left, with a provider that answers.
CaseSpec == Init /\ [][CaseNext]_vars

IndNext ==
    \/ \E n \in RowCounts, gap \in Gaps : NewFrame(n, gap)
    \/ \E obj \in DOMAIN heap, q \in IndicatorLists : AddIndicatorCall(obj, q)

\* The indicator engine.
IndSpec == Init /\ [][IndNext]_vars

PlotNext ==
    \/ \E n \in 0..MaxPlotRows :
          \E spans \in SpanSeries(n) : NewIchimokuFrame(n, spans)
    \/ \E q \in PlotLists : PlotCall(q)

\* plot on frames that carry the Ichimoku columns.
PlotSpec == Init /\ [][PlotNext]_vars

\* ======================================================= claims: cache
\* The last create_df call that ended, when there is one.
Called == lastCall # <<>>

LastCall == lastCall[1]

\* The last provider result saved for the symbol of the last call, as it
\* stood when the call began.
Saved == LastCall.saved[1]

\* The call began with a saved provider result younger than the refresh
\* interval / at least as old as it.
SavedFresh == LastCall.saved # <<>> /\ LastCall.at - Saved.at < refresh_interval

SavedStale == LastCall.saved # <<>> /\ LastCall.at - Saved.at >= refresh_interval

\* C1 (as claimed): a series S returned by the provider and saved by create_df
\* on a miss comes back equal to S (same dates, same values) from a following
\* call for the symbol made within the refresh interval, with no provider call.
C1_CacheRoundTrip ==
    (Called /\ SavedFresh) =>
        /\ LastCall.outcome = "returned"
        /\ LastCall.fetches = 0
        /\ LastCall.df[1] = Saved.df

\* C2: whatever calls came before, a call made when the last saved provider
\* fetch of the symbol is at least refresh_interval old asks the provider
\* exactly once and, with the provider's result, overwrites the entry (new
\* content, new timestamp) and returns it; serving hits never moves the
\* entry's timestamp from the time of that fetch.
C2_ExpiryRefetches ==
    /\ (Called /\ SavedStale) =>
          /\ LastCall.fetches = 1
          /\ LastCall.resp # "raise" =>
                /\ LastCall.outcome = "returned"
                /\ LastCall.df[1] = Download(LastCall.symbol, LastCall.start, LastCall.resp)
                /\ LastCall.post =
                      <<[kind |-> "json", data |-> ToJson(LastCall.df[1]),
                         mtime |-> LastCall.at]>>
    /\ \A sym \in DOMAIN fetched :
          LET f == "cache/" \o sym \o ".json"
          IN  /\ f \in DOMAIN files
              /\ files[f].mtime = fetched[sym].at

\* C2's case: an entry that served a hit goes stale, and the next call
\* replaces it with a different series under a new timestamp.
C2_Witness ==
    /\ Called /\ SavedStale
    /\ Saved.hits > 0
    /\ LastCall.resp = "data"
    /\ LastCall.post # LastCall.pre
    /\ LastCall.post[1].data # LastCall.pre[1].data
    /\ LastCall.post[1].mtime = LastCall.at

\* C3: the cache key is the symbol alone. A call for a symbol whose entry was
\* fetched with another start date and is still fresh makes no provider call
\* and returns the saved series of that other start date, as read back from
\* the entry; the entry stays as it is.
C3_KeyIsSymbolAlone ==
    (Called /\ SavedFresh /\ LastCall.start # Saved.start) =>
        /\ LastCall.fetches = 0
        /\ LastCall.outcome = "returned"
        /\ LastCall.df[1] = FromJson(ToJson(Saved.df))
        /\ LastCall.post = LastCall.pre

\* C3's case: the entry was fetched from a later start date than the one now
\* asked for, and the series returned begins after the requested start.
C3_Witness ==
    /\ Called /\ SavedFresh
    /\ LastCall.start < Saved.start
    /\ LastCall.fetches = 0
    /\ NRows(LastCall.df[1]) > 0
    /\ LastCall.df[1].index[1].day > LastCall.start

\* C4 (as claimed): when the provider is asked and fails or returns an empty
\* result, create_df fails: it returns no series and saves nothing.
C4_ProviderFailureRaises ==
    (Called /\ LastCall.fetches = 1 /\ LastCall.resp \in {"empty", "raise"}) =>
        /\ LastCall.outcome = "raised"
        /\ LastCall.df = <<>>
        /\ LastCall.post = LastCall.pre

\* C5 (as claimed): an entry that exists, is within the refresh interval and
\* cannot be parsed is treated as a miss: the provider is asked once, and with
\* its result the entry is overwritten and the series returned.
C5_CorruptEntryRefetched ==
    (Called /\ LastCall.pre # <<>> /\ LastCall.pre[1].kind = "corrupt"
            /\ LastCall.at - LastCall.pre[1].mtime < refresh_interval) =>
        /\ LastCall.fetches = 1
        /\ LastCall.resp = "data" =>
              /\ LastCall.outcome = "returned"
              /\ LastCall.post[1].kind = "json"

\* C6 (as claimed): when main ends, by finishing or by a failure on one
\* symbol, every other symbol of the list has been processed to completion
\* (its figure is in all_figs).
C6_FailureIsolation ==
    mainPc \in {"done", "aborted"} =>
        \A j \in 1..Len(stocks) :
            (mainPc = "aborted" => stocks[j] # stocks[k]) =>
                \E i \in 1..Len(all_figs) : all_figs[i].symbol = stocks[j]

\* The uppercase form of the symbol strings and lines of this model.
UppercaseOf(text) ==
    CASE text \in {"aapl", "AAPL"} -> "AAPL"
      [] text \in {"msft", "msft\n", "MSFT"} -> "MSFT"

\* C7 (as claimed): create_df looks every symbol up under its uppercase name.
C7_CreateDfUppercases ==
    Called => LastCall.file = "cache/" \o UppercaseOf(LastCall.symbol) \o ".json"

\* C7 (amended): get_stocks uppercases every line of the symbol file before
\* main looks anything up, so main's create_df calls for two lines that differ
\* only in letter case read and write the same single entry, stored under the
\* uppercase name.
C7_MainLooksUpUppercase ==
    /\ (Called /\ LastCall.caller = "main") =>
          /\ LastCall.file = "cache/" \o UppercaseOf(LastCall.line) \o ".json"
          /\ LastCall.post # <<>> => LastCall.file \in DOMAIN files
    /\ \A i, j \in 1..Len(stocks) :
          UppercaseOf(csv[i]) = UppercaseOf(csv[j]) =>
              CacheFile(stocks[i], start_date) = CacheFile(stocks[j], start_date)

\* C7's case: main read "AAPL" and then "aapl"; the entry written for the
\* first line is the hit of the second.
C7_Witness ==
    /\ Called /\ LastCall.caller = "main"
    /\ csv = <<"AAPL", "aapl">>
    /\ LastCall.line = "aapl"
    /\ LastCall.fetches = 0
    /\ LastCall.outcome = "returned"
    /\ LastCall.file = "cache/AAPL.json"
    /\ DOMAIN files = {"cache/AAPL.json"}

\* =================================================== claims: indicators
\* The last add_indicator call, when there is one.
Applied == lastApply # <<>>

LastApply == lastApply[1]

\* The frame add_indicator returned.
Returned == heap[LastApply.ret[1]]

\* C8 (as claimed): add_indicator never mutates its input. After the call the
\* object that was passed still has the columns and values it had before, and
\* the returned frame is another object.
C8_InputNotMutated ==
    (Applied /\ ~LastApply.raised) =>
        /\ heap[LastApply.arg] = LastApply.before
        /\ (Columns(Returned) # Columns(LastApply.before)
                => LastApply.ret[1] # LastApply.arg)

\* The vocabulary of the claim and the columns each of its names stands for.
Vocabulary ==
    {"MA20", "MA50", "MA200", "MACD", "RSI", "BollingerBands", "Ichimoku"}

NameColumns(name) ==
    CASE name = "BollingerBands" -> {"BB_upper", "BB_lower", "BB_middle"}
      [] name = "Ichimoku" ->
            {"Tenkan_sen", "Kijun_sen", "Senkou_span_a", "Senkou_span_b",
             "Chikou_span"}
      [] OTHER -> {name}

Requested == {LastApply.indicators[i] : i \in 1..Len(LastApply.indicators)}

\* C9: for every indicator list, add_indicator on an OHLCV frame raises
\* nothing, whatever names outside the vocabulary the list holds, and the
\* result has exactly the five OHLCV columns, their values unchanged, plus the
\* columns of the recognized names of the list: an unknown name adds none.
C9_UnknownNamesIgnored ==
    (Applied /\ Columns(LastApply.before) = OHLCV) =>
        /\ ~LastApply.raised
        /\ Columns(Returned) =
              OHLCV \cup UNION {NameColumns(name) : name \in Requested \cap Vocabulary}
        /\ \A c \in OHLCV : Returned.cols[c] = LastApply.before.cols[c]
        /\ \A c \in Columns(Returned) : Len(Returned.cols[c]) = NRows(LastApply.before)

\* C9's case: "FOO" requested beside "MA50" on a frame with rows.
C9_Witness ==
    /\ Applied
    /\ LastApply.indicators = <<"FOO", "MA50">>
    /\ NRows(LastApply.before) > 0
    /\ Columns(Returned) = OHLCV \cup {"MA50"}

\* Sum of the numerators of the defined cells of x[lo..hi] (the closes are
\* whole numbers of units), and how many are defined.
RECURSIVE SumDefined(_, _, _)
SumDefined(x, lo, hi) ==
    IF lo > hi THEN 0
    ELSE IF lo = hi THEN (IF IsNum(x[lo]) THEN x[lo][1] ELSE 0)
    ELSE LET mid == (lo + hi) \div 2
         IN  SumDefined(x, lo, mid) + SumDefined(x, mid + 1, hi)

CountDefined(x, lo, hi) == Cardinality({j \in lo..hi : IsNum(x[j])})

WindowStart(i, w) == IF i - w + 1 > 1 THEN i - w + 1 ELSE 1

MAName(w) == "MA" \o ToString(w)

\* The windows whose moving average the last call computed.
MAComputed == {w \in Windows : MAName(w) \in Requested}

\* C10 (as claimed): for every series of length n, column MAw has n defined
\* values, row i the mean of close over rows max(first, i-w+1)..i, all of them.
C10_AlwaysDefinedMean ==
    (Applied /\ Columns(LastApply.before) = OHLCV) =>
        \A w \in MAComputed :
            LET ma == Returned.cols[MAName(w)]
                close == LastApply.before.cols["Close"]
            IN  /\ Len(ma) = Len(close)
                /\ \A i \in 1..Len(close) :
                      /\ IsNum(ma[i])
                      /\ RatEq(ma[i], <<SumDefined(close, WindowStart(i, w), i),
                                        i - WindowStart(i, w) + 1>>)

\* C10 (amended): column MAw has as many rows as the series; row i is the
\* mean of the defined closes of rows max(first, i-w+1)..i, and undefined
\* only when no close is defined there. On a series without missing closes
\* that is n defined values, the first w of them means over the rows so far.
C10_MeanOfDefinedCloses ==
    (Applied /\ Columns(LastApply.before) = OHLCV) =>
        \A w \in MAComputed :
            LET ma == Returned.cols[MAName(w)]
                close == LastApply.before.cols["Close"]
            IN  /\ Len(ma) = Len(close)
                /\ \A i \in 1..Len(close) :
                      LET lo == WindowStart(i, w)
                          nobs == CountDefined(close, lo, i)
                      IN  IF nobs = 0 THEN ma[i] = NaN
                          ELSE /\ IsNum(ma[i])
                               /\ RatEq(ma[i], <<SumDefined(close, lo, i), nobs>>)
                               /\ (nobs = i - lo + 1 /\ i < w =>
                                     RatEq(ma[i], <<SumDefined(close, 1, i), i>>))

\* C10's case: MA20 on a complete series longer than its window: the last
\* row is past the warm-up, the window has slid, and every row is defined.
C10_Witness ==
    /\ Applied
    /\ "MA20" \in Requested
    /\ NRows(LastApply.before) > 20
    /\ \A i \in 1..NRows(LastApply.before) :
          /\ IsNum(LastApply.before.cols["Close"][i])
          /\ IsNum(Returned.cols["MA20"][i])
    /\ ~RatEq(Returned.cols["MA20"][21],
              <<SumDefined(LastApply.before.cols["Close"], 1, 21), 21>>)

\* ================================================= claims: plot clouds
\* plot has returned a figure for the frame held, and its Ichimoku branch ran.
Plotted ==
    /\ fig # <<>>
    /\ \E j \in 1..Len(fig[1]) : fig[1][j].name = "Senkou Span A"

PlotFrame == plotDf[1]

\* The segment between rows i-1 and i, as the x of the traces drawn for it.
Segment(i) == <<PlotFrame.index[i - 1], PlotFrame.index[i]>>

\* The figure has a cloud trace of that name over the segment.
CloudOver(i, name) ==
    \E j \in 1..Len(fig[1]) : fig[1][j].name = name /\ fig[1][j].x = Segment(i)

Bullish(i) == CloudOver(i, "Cloud Green")

Bearish(i) == CloudOver(i, "Cloud Red")

\* Leading span A is above (below) leading span B in row i; neither holds
\* when a span is undefined there.
SpanAAbove(i) ==
    Greater(PlotFrame.cols["Senkou_span_a"][i], PlotFrame.cols["Senkou_span_b"][i])

SpanABelow(i) ==
    Greater(PlotFrame.cols["Senkou_span_b"][i], PlotFrame.cols["Senkou_span_a"][i])

\* C11: in the figure plot returns for a frame with the Ichimoku columns,
\* every adjacent pair of rows (i-1, i) is drawn as a green cloud exactly
\* when leading span A is above leading span B in both rows, as a red cloud
\* exactly when it is below in both rows, as neither in every other case
\* (the relation differs, the spans are equal, a span is undefined in one of
\* the rows), and never as both.
C11_CloudClassification ==
    Plotted =>
        \A i \in 2..NRows(PlotFrame) :
            /\ Bullish(i) <=> (SpanAAbove(i - 1) /\ SpanAAbove(i))
            /\ Bearish(i) <=> (SpanABelow(i - 1) /\ SpanABelow(i))
            /\ ~(Bullish(i) /\ Bearish(i))

\* A plotted frame of four rows: a green segment, then a crossing drawn as
\* neither, then a red segment.
C11_Witness ==
    /\ Plotted
    /\ NRows(PlotFrame) = 4
    /\ Bullish(2)
    /\ ~Bullish(3) /\ ~Bearish(3)
    /\ SpanAAbove(2) /\ SpanABelow(3)
    /\ Bearish(4)

====
